---- MODULE Spec2Model ----
(***************************************************************************)
(* on-dl: the directory-based job queue (src/ondl/queue.py), the ingest    *)
(* entry point that enqueues jobs (src/ingest.py) and the consumer's Run   *)
(* Loop (src/consume.py).                                                  *)
(*                                                                         *)
(* A state directory is a partial map from file names to files; a file is  *)
(* its text (the JSON payload it stores) and its last-modified time.       *)
(* rename(2)                                                               *)
(* (Path.replace) moves the file, replaces a file of the same name in the  *)
(* target directory and leaves the file's mtime untouched.                 *)
(* Time is counted in milliseconds.                                        *)
(***************************************************************************)
EXTENDS Integers, Sequences, FiniteSets, TLC

VARIABLES
    now,          \* time.time(), in milliseconds
    cfg,          \* the [queue] table of config.toml, read by every process
    fs,           \* state directory -> (file name -> file)
    pids,         \* the process ids the ingest calls so far have run under
    pc,           \* consumer -> position in consume.main
    reap,         \* consumer -> the reaper's listing of processing still to visit
    moved,        \* consumer -> reap_stale_processing_jobs' counter
    jobs,         \* consumer -> the sorted listing of incoming still to visit
    processed,    \* consumer -> consume.main's counter
    claimed,      \* consumer -> the name it claimed in this iteration, or None
    ok,           \* consumer -> the outcome flag of this iteration
    finish_calls, \* history: consumer -> finish_job calls made in this iteration
    run,          \* consumer -> the locals its last iteration's try block has left
    claimed_ever, \* history: the jobs (name, file) claim_job has moved into processing
    last,         \* the last ingest call: what it read, what it printed, its exit code
    archive,      \* the lines of the download archive
    enq           \* the _enqueue_atomic calls in progress

vars == <<now, cfg, fs, pids, pc, reap, moved, jobs, processed, claimed, ok,
          finish_calls, run, claimed_ever, last, archive, enq>>

\* What consume.main neither reads nor writes.
ingestVars == <<last, archive, enq>>

----
\* Bounds of the model.
NumConsumers == 2
MaxPid == 3
MaxMs == 1
MaxMinutes == 1
MaxJobs == 2
MaxCap == 2
MaxStale == 1

\* Program constants.
MsPerSec == 1000
SecPerMin == 60

Consumers == 1..NumConsumers
Pids == 1..MaxPid
Urls == {"u1", "u2"}
Dirs == {"incoming", "processing", "done", "error"}
None == <<>>

MsPerMin == SecPerMin * MsPerSec

\* The values the clock takes.
Times == {m * MsPerMin + s : m \in 0..MaxMinutes, s \in 0..MaxMs}

Min(a, b) == IF a <= b THEN a ELSE b

----
\* int ^ int on non-negative integers.
RECURSIVE Xor(_, _)
Xor(a, b) ==
    IF a = 0 THEN b
    ELSE IF b = 0 THEN a
    ELSE 2 * Xor(a \div 2, b \div 2) + (((a % 2) + (b % 2)) % 2)

\* ingest.main: ts = time.strftime("%Y%m%d-%H%M%S"), rand = os.getpid() ^
\* int(time.time() * 1000), filename = f"{ts}-{rand}.dljob".  The name is the
\* pair of the second and the disambiguator.
JobFilename(t, pid) == <<t \div MsPerSec, Xor(pid, t)>>

\* The order of sorted() on the paths of one directory: the fixed-width
\* timestamp first, then the disambiguator.
NameLess(a, b) == a[1] < b[1] \/ (a[1] = b[1] /\ a[2] < b[2])

RECURSIVE SortNames(_)
SortNames(S) ==
    IF S = {} THEN <<>>
    ELSE LET m == CHOOSE x \in S : \A y \in S \ {x} : NameLess(x, y)
         IN <<m>> \o SortNames(S \ {m})

----
\* Directories.
\* The job pattern "*.dljob" matches the names ingest gives to jobs,
\* "<ts>-<rand>.dljob", and not the names of its temporary files,
\* ".tmp-<ts>-<rand>.dljob-<pid>".
MatchesJobGlob(n) == Len(n) = 2

Glob(f, d) == {n \in DOMAIN f[d] : MatchesJobGlob(n)}

Exists(f, d, n) == n \in DOMAIN f[d]

Put(dir, n, file) == [x \in (DOMAIN dir) \cup {n} |-> IF x = n THEN file ELSE dir[x]]

Remove(dir, n) == [x \in (DOMAIN dir) \ {n} |-> dir[x]]

\* A move that truncates the file.
ReplaceTruncating(f, src, n, dst, m) ==
    [f EXCEPT ![src] = Remove(f[src], n),
              ![dst] = Put(f[dst], m, [f[src][n] EXCEPT !.text.form = "unparsable"])]

\* A rename that leaves the source in place (a copy).
ReplaceCopy(f, src, n, dst, m) == [f EXCEPT ![dst] = Put(f[dst], m, f[src][n])]

\* Path.replace(target) of an existing file: one rename(2).
Replace(f, src, n, dst, m) ==
    [f EXCEPT ![src] = Remove(f[src], n), ![dst] = Put(f[dst], m, f[src][n])]

\* Path.replace(target) inside one directory.
RenameIn(f, d, n, m) == [f EXCEPT ![d] = Put(Remove(f[d], n), m, f[d][n])]

AllFiles(f) == UNION {{<<d, n>> : n \in DOMAIN f[d]} : d \in Dirs}

----
\* Text.  A string is its leading blanks, its core and its trailing blanks
\* (a core neither starts nor ends with a blank).  "junk" is a text that is
\* no network address.
Cores == {"", "junk", "None"} \cup Urls

Strings == [lead : 0..1, core : Cores \ {"None"}, trail : 0..1]

Text(core) == [lead |-> 0, core |-> core, trail |-> 0]

\* str.strip()
Strip(s) == s.core

\* The "url" member of the JSON object: absent, null or a string.
JsonAbsent == [kind |-> "absent", text |-> Text("")]

JsonNull == [kind |-> "null", text |-> Text("")]

JsonValues == {JsonAbsent, JsonNull} \cup {[kind |-> "string", text |-> s] : s \in Strings}

\* What ingest reads from standard input: nothing, a text json.loads
\* rejects, a JSON value that is no object, or an object.
\* The members "category" and "app" are absent from the payloads below.
Bare(form, url) ==
    [form |-> form, url |-> url, category |-> JsonAbsent, app |-> JsonAbsent]

Payloads ==
    {Bare(f, JsonAbsent) : f \in {"empty", "unparsable", "not_object"}}
        \cup {Bare("object", v) : v \in JsonValues}

JsonString(core) == [kind |-> "string", text |-> Text(core)]

ObjectWithUrl(url) == Bare("object", JsonString(url))

\* str(payload.get("url", "")): the default is the empty string and str(None)
\* is "None".
GetUrl(v) ==
    IF v.kind = "absent" THEN Text("")
    ELSE IF v.kind = "null" THEN Text("None")
    ELSE v.text

\* An url test that lets every text through.
UrlMissingNever(url) == FALSE

\* ingest._extract_url: "if not url: raise ValueError".
UrlMissing(url) == url = ""

ExtractUrl(payload) == Strip(GetUrl(payload.url))

\* str(payload.get("app", "")).strip(), _normalize_app, and the default.
DefaultApp == "YouTube"

NormalizeApp(payload) ==
    LET app == Strip(GetUrl(payload.app))
    IN IF app = "" THEN DefaultApp ELSE app

\* The text ingest.main writes: the payload with payload["url"] = url and
\* payload["app"] = app, every other member as it came.
JobText(payload) ==
    [payload EXCEPT !.url = JsonString(ExtractUrl(payload)),
                    !.app = JsonString(NormalizeApp(payload))]

\* str(data.get("url", "")).strip() of a job file; a file json.loads
\* rejects, or that holds no object, raises instead.
Readable(file) == file.text.form = "object"

UrlOf(file) == Strip(GetUrl(file.text.url))

\* A check that finds nothing.
AlreadyQueuedNever(f, url) == FALSE

\* ingest._already_queued: a job of incoming or processing stores the url.
AlreadyQueued(f, url) ==
    \E d \in {"incoming", "processing"} : \E n \in Glob(f, d) :
        Readable(f[d][n]) /\ UrlOf(f[d][n]) = url

\* ingest._enqueue_atomic: the payload is written to a temporary file that the
\* job pattern does not match and renamed to its final name.
EnqueueAtomic(f, n, text, t) ==
    [f EXCEPT !["incoming"] = Put(f["incoming"], n, [text |-> text, mtime |-> t])]

\* A word and its capitalisation; str.lower() drops the capitals.
Extractors == [letters : {"youtube"}, caps : BOOLEAN]

Ids == [letters : {"abc"}, caps : BOOLEAN]

\* A lower() that keeps the capitals.
KeepCase(w) == w

Lower(w) == [w EXCEPT !.caps = FALSE]

\* A line "<extractor> <id>" of the archive or of the resolver's output.
Lines == [extractor : Extractors, id : Ids]

\* The already-processed lookup: resolve_tool finds no yt-dlp and raises,
\* subprocess.run cannot start it and raises, it exits non-zero (unknown url,
\* network error), it prints nothing, it prints a line that is no pair, or
\* it prints "<extractor_key> <id>".
Failures == {"tool_missing", "cannot_run", "nonzero", "no_output", "one_word"}

SomeLine == [extractor |-> [letters |-> "youtube", caps |-> FALSE],
             id |-> [letters |-> "abc", caps |-> FALSE]]

Lookups ==
    {[result |-> r, line |-> SomeLine] : r \in Failures}
        \cup {[result |-> "pair", line |-> l] : l \in Lines}

LookupNonzero == [result |-> "nonzero", line |-> SomeLine]

\* ingest._archive_keyline: a keyline or None.
HasKeyline(lookup) == lookup.result = "pair"

ArchiveKeyline(lookup) ==
    [extractor |-> Lower(lookup.line.extractor), id |-> lookup.line.id]

\* ingest._archive_contains: some line of the archive equals the keyline (a
\* missing archive has no lines).
ArchiveContains(arch, keyline) == keyline \in arch

\* A call: the payload on its standard input, the outcome its lookup had (or
\* would have had), whether it has run yt-dlp (subprocess.run in
\* _archive_keyline), the lines it printed and its exit code.
Call(payload, lookup, ran, lines, code) ==
    [stdin |-> payload, lookup |-> lookup, ran |-> ran, stdout |-> lines, code |-> code]

NoCall == Call(Bare("empty", JsonAbsent), LookupNonzero, FALSE, <<>>, 0)

\* The line ingest.main prints for a payload it rejects.
ErrorLine(payload) ==
    IF payload.form = "empty" THEN "ERROR empty stdin"
    ELSE IF payload.form = "unparsable" THEN "ERROR json"
    ELSE IF payload.form = "not_object" THEN "ERROR payload must be a JSON object"
    ELSE "ERROR payload missing 'url'"

\* The text of a file that write_text has not finished.
PartialText == Bare("unparsable", JsonAbsent)

\* A temporary file under the final name.
TmpNameFinal(n, pid) == n

\* tmp = incoming_dir / (".tmp-" + filename + f"-{os.getpid()}")
TmpName(n, pid) == <<".tmp-", n[1], n[2], pid>>

\* load_config: the configuration loads, or config.toml is no TOML or holds
\* a number int() rejects (tomllib.TOMLDecodeError and int's error are
\* ValueErrors), or ONDL_CONFIG names a missing file or the file cannot be
\* read (RuntimeError, OSError).
ConfOutcomes == {"loaded", "value_error", "other_error"}

\* _enqueue_atomic: the job is written, or write_text cannot create the
\* temporary file, or it fails after creating it (disk full), or
\* tmp.replace(final) fails.
IoOutcomes == {"written", "open_fails", "write_fails", "rename_fails"}

\* The incoming directory after _enqueue_atomic, by its outcome.
Enqueue(f, n, pid, text, t, io) ==
    IF io = "written" THEN EnqueueAtomic(f, n, text, t)
    ELSE IF io = "write_fails"
    THEN [f EXCEPT !["incoming"] =
            Put(f["incoming"], TmpName(n, pid), [text |-> PartialText, mtime |-> t])]
    ELSE IF io = "rename_fails"
    THEN [f EXCEPT !["incoming"] =
            Put(f["incoming"], TmpName(n, pid), [text |-> text, mtime |-> t])]
    ELSE f

\* ingest.main, run in a process of its own.  The operating system gives
\* every call a process id that no earlier call had.  (The model stops
\* calling at MaxJobs files.)
IngestCall(pid, payload, lookup, conf, io) ==
    /\ pid \notin pids
    /\ Cardinality(AllFiles(fs)) < MaxJobs
    /\ pids' = pids \cup {pid}
    /\ LET url == ExtractUrl(payload) IN
        IF payload.form # "object" \/ UrlMissing(url)
        THEN /\ last' = Call(payload, lookup, FALSE, <<ErrorLine(payload)>>, 2)
             /\ fs' = fs
        ELSE IF conf = "value_error"
        THEN /\ last' = Call(payload, lookup, FALSE, <<"ERROR config">>, 2)
             /\ fs' = fs
        ELSE IF conf = "other_error" \/ lookup.result = "tool_missing"
        THEN /\ last' = Call(payload, lookup, FALSE, <<"ERROR internal">>, 3)
             /\ fs' = fs
        ELSE IF AlreadyQueued(fs, url)
        THEN /\ last' = Call(payload, lookup, FALSE, <<"ALREADY_QUEUED">>, 0)
             /\ fs' = fs
        ELSE IF lookup.result = "cannot_run"
        THEN /\ last' = Call(payload, lookup, TRUE, <<"ERROR internal">>, 3)
             /\ fs' = fs
        ELSE IF HasKeyline(lookup) /\ ArchiveContains(archive, ArchiveKeyline(lookup))
        THEN /\ last' = Call(payload, lookup, TRUE, <<"Test", "ALREADY_DOWNLOADED">>, 0)
             /\ fs' = fs
        ELSE /\ last' = Call(payload, lookup, TRUE,
                             (IF HasKeyline(lookup) THEN <<"Test">> ELSE <<>>)
                                \o <<IF io = "written" THEN "QUEUED" ELSE "ERROR internal">>,
                             IF io = "written" THEN 0 ELSE 3)
             /\ fs' = Enqueue(fs, JobFilename(now, pid), pid, JobText(payload), now, io)
    /\ UNCHANGED <<now, cfg, pc, reap, moved, jobs, processed, claimed, ok,
                   finish_calls, run, claimed_ever, archive, enq>>

\* A call whose configuration loads and whose write succeeds.
IngestMain(pid, payload, lookup) == IngestCall(pid, payload, lookup, "loaded", "written")

\* A call with a well-formed payload for which the resolver exits non-zero.
Ingest(pid, url) == IngestMain(pid, ObjectWithUrl(url), LookupNonzero)

\* _enqueue_atomic, step by step.
\* ingest.main reaches _enqueue_atomic (valid payload, not queued, not
\* downloaded) and write_text has created the temporary file.
EnqOpen(pid, url) ==
    /\ pid \notin pids
    /\ Cardinality(AllFiles(fs)) < MaxJobs
    /\ ~AlreadyQueued(fs, url)
    /\ pids' = pids \cup {pid}
    /\ LET n == JobFilename(now, pid) IN
        /\ enq' = enq \cup {[pid |-> pid, name |-> n, url |-> url, stage |-> "open"]}
        /\ fs' = [fs EXCEPT !["incoming"] =
                    Put(fs["incoming"], TmpName(n, pid), [text |-> PartialText, mtime |-> now])]
    /\ UNCHANGED <<now, cfg, pc, reap, moved, jobs, processed, claimed, ok,
                   finish_calls, run, claimed_ever, last, archive>>

\* write_text has written the whole payload and closed the file.
EnqWrite(e) ==
    /\ e \in enq
    /\ e.stage = "open"
    /\ enq' = (enq \ {e}) \cup {[e EXCEPT !.stage = "written"]}
    /\ fs' = [fs EXCEPT !["incoming"] =
                Put(fs["incoming"], TmpName(e.name, e.pid),
                    [text |-> JobText(ObjectWithUrl(e.url)), mtime |-> now])]
    /\ UNCHANGED <<now, cfg, pids, pc, reap, moved, jobs, processed, claimed, ok,
                   finish_calls, run, claimed_ever, last, archive>>

\* tmp.replace(final), and ingest.main prints QUEUED.
EnqRename(e) ==
    /\ e \in enq
    /\ e.stage = "written"
    /\ enq' = enq \ {e}
    /\ fs' = RenameIn(fs, "incoming", TmpName(e.name, e.pid), e.name)
    /\ last' = Call(ObjectWithUrl(e.url), LookupNonzero, TRUE, <<"QUEUED">>, 0)
    /\ UNCHANGED <<now, cfg, pids, pc, reap, moved, jobs, processed, claimed, ok,
                   finish_calls, run, claimed_ever, archive>>

\* The process dies in the middle of _enqueue_atomic.
EnqCrash(e) ==
    /\ e \in enq
    /\ enq' = enq \ {e}
    /\ UNCHANGED <<now, cfg, fs, pids, pc, reap, moved, jobs, processed, claimed, ok,
                   finish_calls, run, claimed_ever, last, archive>>

\* The clock advances, by a millisecond or by a minute.
Tick ==
    /\ \/ /\ (now % MsPerMin) < MaxMs
          /\ now' = now + 1
       \/ /\ (now \div MsPerMin) < MaxMinutes
          /\ now' = now + MsPerMin
    /\ UNCHANGED <<cfg, fs, pids, pc, reap, moved, jobs, processed, claimed, ok,
                   finish_calls, run, claimed_ever>>
    /\ UNCHANGED ingestVars

----
\* A claim that moves the job straight to done.
ClaimJobToDone(f, n) == Replace(f, "incoming", n, "done", n)

\* A claim that copies the job and leaves it in incoming.
ClaimJobCopy(f, n) == ReplaceCopy(f, "incoming", n, "processing", n)

\* queue.claim_job: rename incoming/name to processing/name.
ClaimJob(f, n) == Replace(f, "incoming", n, "processing", n)

\* queue.finish_job: rename processing/name into done (ok) or error.
FinishDir(isOk) == IF isOk THEN "done" ELSE "error"

FinishJob(f, n, isOk) == Replace(f, "processing", n, FinishDir(isOk), n)

\* A finally clause that records the outcome of successful jobs only.
ShouldFinishIfOk(cl, isOk) == cl # None /\ isOk

\* consume.main, the finally clause: "if claimed:".
ShouldFinish(cl, isOk) == cl # None

\* A loop test that lets one job more through.
LoopExitLate(listing, n, max_per_run) == listing = <<>> \/ n > max_per_run

\* consume.main, the test of the for loop: the listing is exhausted or the cap
\* is reached.
LoopExit(listing, n, max_per_run) == listing = <<>> \/ n >= max_per_run

\* A reaper that only a negative threshold disables.
ReaperDisabledBelowZero(stale_minutes) == stale_minutes < 0

\* queue.reap_stale_processing_jobs: "if stale_minutes <= 0: return 0".
ReaperDisabled(stale_minutes) == stale_minutes <= 0

\* queue.reap_stale_processing_jobs: the cutoff and the test of one job.
Cutoff(t, stale_minutes) == t - stale_minutes * MsPerMin

\* A test that takes no job as stale.
IsStaleNever(mtime, t, stale_minutes) == FALSE

IsStale(mtime, t, stale_minutes) == mtime < Cutoff(t, stale_minutes)

ReapDir(action) == IF action = "requeue" THEN "incoming" ELSE "error"

\* A reaper move that copies the stale job.
ReapMoveCopy(f, n, action) == ReplaceCopy(f, "processing", n, ReapDir(action), n)

\* queue.reap_stale_processing_jobs: job.replace(target).
ReapMove(f, n, action) == Replace(f, "processing", n, ReapDir(action), n)

\* consume.main up to the reaper: stale_minutes <= 0 returns 0 at once,
\* otherwise the reaper lists processing.
ReapStart(c) ==
    /\ pc[c] = "start"
    /\ IF ReaperDisabled(cfg.stale_minutes)
       THEN /\ pc' = [pc EXCEPT ![c] = "list"]
            /\ UNCHANGED reap
       ELSE /\ pc' = [pc EXCEPT ![c] = "reap"]
            /\ reap' = [reap EXCEPT ![c] = Glob(fs, "processing")]
    /\ UNCHANGED <<now, cfg, fs, pids, moved, jobs, processed, claimed, ok,
                   finish_calls, run, claimed_ever>>
    /\ UNCHANGED ingestVars

\* One turn of the reaper's loop: stat the job, skip it when it has vanished
\* or is not stale, otherwise rename it into the target directory.
ReapOne(c) ==
    /\ pc[c] = "reap"
    /\ \E n \in reap[c] :
        /\ reap' = [reap EXCEPT ![c] = reap[c] \ {n}]
        /\ IF Exists(fs, "processing", n)
              /\ IsStale(fs["processing"][n].mtime, now, cfg.stale_minutes)
           THEN /\ fs' = ReapMove(fs, n, cfg.action)
                /\ moved' = [moved EXCEPT ![c] = moved[c] + 1]
           ELSE UNCHANGED <<fs, moved>>
    /\ UNCHANGED <<now, cfg, pids, pc, jobs, processed, claimed, ok,
                   finish_calls, run, claimed_ever>>
    /\ UNCHANGED ingestVars

\* One turn of the reaper's loop in which job.replace(target) fails with an
\* error other than FileNotFoundError (the target directory is not writable,
\* say): only FileNotFoundError is caught, so the error leaves
\* reap_stale_processing_jobs and consume.main.
ReapFail(c) ==
    /\ pc[c] = "reap"
    /\ \E n \in reap[c] :
        /\ Exists(fs, "processing", n)
        /\ IsStale(fs["processing"][n].mtime, now, cfg.stale_minutes)
    /\ pc' = [pc EXCEPT ![c] = "reap_raised"]
    /\ UNCHANGED <<now, cfg, fs, pids, reap, moved, jobs, processed, claimed, ok,
                   finish_calls, run, claimed_ever>>
    /\ UNCHANGED ingestVars

\* reap_stale_processing_jobs has returned.
ReaperReturned(c) == pc[c] = "list" \/ (pc[c] = "reap" /\ reap[c] = {})

\* The reaper returns (its counter is printed and dropped); consume.main
\* lists incoming, sorted, and tests the loop.
List(c) ==
    /\ ReaperReturned(c)
    /\ LET listing == SortNames(Glob(fs, "incoming")) IN
        /\ jobs' = [jobs EXCEPT ![c] = listing]
        /\ pc' = [pc EXCEPT ![c] =
                    IF LoopExit(listing, processed[c], cfg.max_per_run)
                    THEN "done" ELSE "loop"]
    /\ moved' = [moved EXCEPT ![c] = 0]
    /\ UNCHANGED <<now, cfg, fs, pids, reap, processed, claimed, ok,
                   finish_calls, run, claimed_ever>>
    /\ UNCHANGED ingestVars

\* queue.parse_job_file: json.loads, then str(raw.get(k, "")).strip() for
\* url, category and app.
ParseJobFile(text) ==
    [url |-> Strip(GetUrl(text.url)),
     category |-> Strip(GetUrl(text.category)),
     app |-> Strip(GetUrl(text.app))]

NoJob == [url |-> "", category |-> "", app |-> ""]

\* str.lower() on the texts of the model.
LowerText(core) == IF core = "YouTube" THEN "youtube" ELSE core

\* if job.app.lower() != "youtube": raise RuntimeError
Supported(job) == LowerText(job.app) = "youtube"

\* The children of the staging directory after the download: the video and
\* the thumbnail that --write-thumbnail leaves next to it.
StagedFiles == {"video", "thumbnail"}

\* What the collaborators of one iteration do when they are called:
\* get_youtube_meta, download_youtube_to_dir, the preview (stat,
\* ffprobe_duration, make_preview_gif), move_merge to the destination,
\* move_merge to the fallback root return (TRUE) or raise (FALSE);
\* discord_post sends, or gets an HTTP error that it handles itself, or
\* raises (no network, timeout).  A move_merge to the destination that
\* raises has moved some of the children of the staging directory before
\* (partial), never all of them.
Pipes ==
    [meta : BOOLEAN, download : BOOLEAN, preview : BOOLEAN, move : BOOLEAN,
     partial : (SUBSET StagedFiles) \ {StagedFiles},
     fallback : BOOLEAN, notify : {"sent", "http_error", "raises"}]

AllSucceed ==
    [meta |-> TRUE, download |-> TRUE, preview |-> TRUE, move |-> TRUE,
     partial |-> {}, fallback |-> TRUE, notify |-> "sent"]

MetaFails == [AllSucceed EXCEPT !.meta = FALSE]

\* yt-dlp exits non-zero without an url; run(check=True) raises.
MetaReturns(job, pipe) == pipe.meta /\ job.url # ""

\* An iteration that never takes the fallback.
UsedFallbackNever(pipe) == FALSE

\* used_fallback: the except clause around the first move_merge has run.
UsedFallback(pipe) == ~pipe.move

\* A notification whose HTTP errors only are handled.
NotifyHandledHttpOnly(pipe) == pipe.notify \in {"sent", "http_error"}

\* discord_post returns, or handles its HTTPError and returns, or raises and
\* the try block around the call takes the exception ("except Exception").
NotifyHandled(pipe) == pipe.notify \in {"sent", "http_error", "raises"}

\* fs.move_merge(staging_dir, dest_dir): the children it has moved, one at a
\* time, when it returns or raises.
FirstMove(pipe) == IF pipe.move THEN StagedFiles ELSE pipe.partial

\* The files under each root after the calls of move_merge: the fallback
\* call moves what the staging directory still holds.
Placed(pipe, called) ==
    [configured |-> IF "move" \in called THEN FirstMove(pipe) ELSE {},
     fallback |-> IF "fallback" \in called /\ pipe.fallback
                  THEN StagedFiles \ FirstMove(pipe) ELSE {}]

\* The locals of an iteration after its try block: whether parse_job_file
\* returned and the Job it returned, the collaborators that were called,
\* dest_dir (its root and the category under it), the files each root has
\* received, whether the embed has the "Storage Fallback Used" field, and ok.
Run(pipe, parsed, job, called, root, warned, isOk) ==
    [pipe |-> pipe, parsed |-> parsed, job |-> job, called |-> called,
     dest |-> [root |-> root, category |-> IF root = "none" THEN "" ELSE job.category],
     placed |-> Placed(pipe, called),
     warned |-> warned, ok |-> isOk]

NoRun == Run(AllSucceed, FALSE, NoJob, {}, "none", FALSE, FALSE)

\* The try block after the claim, on the file processing holds (present is
\* FALSE when the file is gone: read_text raises).
TryBlock(present, file, pipe) ==
    IF ~present \/ ~Readable(file)
    THEN Run(pipe, FALSE, NoJob, {}, "none", FALSE, FALSE)
    ELSE LET job == ParseJobFile(file.text) IN
        IF ~Supported(job)
        THEN Run(pipe, TRUE, job, {}, "none", FALSE, FALSE)
        ELSE IF ~MetaReturns(job, pipe)
        THEN Run(pipe, TRUE, job, {"meta"}, "none", FALSE, FALSE)
        ELSE IF ~pipe.download
        THEN Run(pipe, TRUE, job, {"meta", "download"}, "none", FALSE, FALSE)
        ELSE IF ~pipe.preview
        THEN Run(pipe, TRUE, job, {"meta", "download", "preview"}, "none", FALSE, FALSE)
        ELSE IF UsedFallback(pipe) /\ ~pipe.fallback
        THEN Run(pipe, TRUE, job, {"meta", "download", "preview", "move", "fallback"},
                 "none", FALSE, FALSE)
        ELSE Run(pipe, TRUE, job,
                 {"meta", "download", "preview", "move", "notify"}
                    \cup (IF UsedFallback(pipe) THEN {"fallback"} ELSE {}),
                 IF UsedFallback(pipe) THEN "fallback" ELSE "configured",
                 UsedFallback(pipe),
                 NotifyHandled(pipe))

\* The next job of the listing: claimed = None, ok = False, then claim_job.
\* A lost claim raises FileNotFoundError, caught by the except clause.
Claim(c) ==
    /\ pc[c] = "loop"
    /\ LET n == Head(jobs[c]) IN
        /\ jobs' = [jobs EXCEPT ![c] = Tail(jobs[c])]
        /\ ok' = [ok EXCEPT ![c] = FALSE]
        /\ finish_calls' = [finish_calls EXCEPT ![c] = 0]
        /\ run' = [run EXCEPT ![c] = NoRun]
        /\ IF Exists(fs, "incoming", n)
           THEN /\ fs' = ClaimJob(fs, n)
                /\ claimed' = [claimed EXCEPT ![c] = n]
                /\ claimed_ever' = claimed_ever \cup {<<n, fs["incoming"][n]>>}
                /\ pc' = [pc EXCEPT ![c] = "body"]
           ELSE /\ claimed' = [claimed EXCEPT ![c] = None]
                /\ pc' = [pc EXCEPT ![c] = "finally"]
                /\ UNCHANGED <<fs, claimed_ever>>
    /\ UNCHANGED <<now, cfg, pids, reap, moved, processed>>
    /\ UNCHANGED ingestVars

\* The body of the try block after the claim: parse_job_file reads the
\* claimed file (a file that is gone raises), then the collaborators
\* (metadata, download, preview, move, notification) are called in turn;
\* ok = True when the end of the block is reached, and ok stays False when
\* something raises.
Pipeline(c, pipe) ==
    /\ pc[c] = "body"
    /\ LET present == Exists(fs, "processing", claimed[c])
           r == TryBlock(present, IF present THEN fs["processing"][claimed[c]]
                                  ELSE [text |-> PartialText, mtime |-> 0], pipe)
       IN /\ run' = [run EXCEPT ![c] = r]
          /\ ok' = [ok EXCEPT ![c] = r.ok]
    /\ pc' = [pc EXCEPT ![c] = "finally"]
    /\ UNCHANGED <<now, cfg, fs, pids, reap, moved, jobs, processed, claimed,
                   finish_calls, claimed_ever>>
    /\ UNCHANGED ingestVars

\* An iteration whose collaborators all return, or whose first one raises.
Body(c) == \E pipe \in {AllSucceed, MetaFails} : Pipeline(c, pipe)

\* The finally clause: finish_job for a claimed job, then processed += 1 and
\* the test of the loop.  finish_job raises FileNotFoundError when processing
\* no longer holds the job; nothing catches it and main ends with the
\* exception.  The locals claimed and ok are dead from here to the next
\* iteration, which resets them.
Finally(c) ==
    /\ pc[c] = "finally"
    /\ IF ShouldFinish(claimed[c], ok[c]) /\ ~Exists(fs, "processing", claimed[c])
       THEN /\ pc' = [pc EXCEPT ![c] = "raised"]
            /\ UNCHANGED <<fs, processed>>
       ELSE /\ fs' = IF ShouldFinish(claimed[c], ok[c])
                     THEN FinishJob(fs, claimed[c], ok[c]) ELSE fs
            /\ processed' = [processed EXCEPT ![c] = processed[c] + 1]
            /\ pc' = [pc EXCEPT ![c] =
                        IF LoopExit(jobs[c], processed[c] + 1, cfg.max_per_run)
                        THEN "done" ELSE "loop"]
    /\ finish_calls' = [finish_calls EXCEPT ![c] =
                            IF ShouldFinish(claimed[c], ok[c])
                            THEN finish_calls[c] + 1 ELSE 0]
    /\ claimed' = [claimed EXCEPT ![c] = None]
    /\ ok' = [ok EXCEPT ![c] = FALSE]
    /\ UNCHANGED <<now, cfg, pids, reap, moved, jobs, run, claimed_ever>>
    /\ UNCHANGED ingestVars

----
\* The [queue] tables: stale_processing_minutes, stale_processing_action and
\* max_per_run.
Configs ==
    [stale_minutes : 0..MaxStale, action : {"requeue", "error"}, max_per_run : 1..MaxCap]

EmptyFs == [d \in Dirs |-> <<>>]

\* No ingest call has run or is running; nothing has been downloaded.
IngestIdle ==
    /\ last = NoCall
    /\ archive = {}
    /\ enq = {}

\* The local variables of consume.main when a process starts.
Fresh ==
    /\ pc = [c \in Consumers |-> "start"]
    /\ reap = [c \in Consumers |-> {}]
    /\ moved = [c \in Consumers |-> 0]
    /\ jobs = [c \in Consumers |-> <<>>]
    /\ processed = [c \in Consumers |-> 0]
    /\ claimed = [c \in Consumers |-> None]
    /\ ok = [c \in Consumers |-> FALSE]
    /\ finish_calls = [c \in Consumers |-> 0]
    /\ run = [c \in Consumers |-> NoRun]
    /\ claimed_ever = {}

Init ==
    /\ now = 0
    /\ cfg \in Configs
    /\ fs = EmptyFs
    /\ pids = {}
    /\ Fresh
    /\ IngestIdle

Next ==
    \/ Tick
    \/ \E pid \in Pids, url \in Urls : Ingest(pid, url)
    \/ \E c \in Consumers :
        \/ ReapStart(c)
        \/ ReapOne(c)
        \/ List(c)
        \/ Claim(c)
        \/ Body(c)
        \/ Finally(c)

\* Ingestion calls and Run Loop invocations, interleaved.
Spec == Init /\ [][Next]_vars

----
\* Queues that earlier runs have left behind.  A job is what one ingest call
\* enqueued: the process id and the time of the call, and the url.
JobsOf(T, U) == {[pid |-> p, t |-> t, url |-> u] : p \in Pids, t \in T, u \in U}

RECURSIVE SetsUpTo(_, _)
SetsUpTo(S, k) ==
    IF k = 0 THEN {{}}
    ELSE LET P == SetsUpTo(S, k - 1) IN P \cup {p \cup {x} : p \in P, x \in S}

\* At most MaxJobs jobs, of distinct calls and of distinct names.
JobSets(T, U) ==
    {S \in SetsUpTo(JobsOf(T, U), MaxJobs) :
        \A a, b \in S :
            (a.pid = b.pid \/ JobFilename(a.t, a.pid) = JobFilename(b.t, b.pid)) => a = b}

\* The directory that holds the jobs of S.
DirOf(S) ==
    [n \in {JobFilename(j.t, j.pid) : j \in S} |->
        LET j == CHOOSE j \in S : JobFilename(j.t, j.pid) = n
        IN [text |-> JobText(ObjectWithUrl(j.url)), mtime |-> j.t]]

Latest == MaxMinutes * MsPerMin + MaxMs

\* One job sits in incoming and every consumer has listed it: each is about
\* to call claim_job on it.
InitRace ==
    /\ now = Latest
    /\ cfg \in Configs
    /\ \E j \in JobsOf(Times, Urls) :
        /\ fs = [EmptyFs EXCEPT !["incoming"] = DirOf({j})]
        /\ pids = {j.pid}
        /\ jobs = [c \in Consumers |-> <<JobFilename(j.t, j.pid)>>]
    /\ pc = [c \in Consumers |-> "loop"]
    /\ reap = [c \in Consumers |-> {}]
    /\ moved = [c \in Consumers |-> 0]
    /\ processed = [c \in Consumers |-> 0]
    /\ claimed = [c \in Consumers |-> None]
    /\ ok = [c \in Consumers |-> FALSE]
    /\ finish_calls = [c \in Consumers |-> 0]
    /\ run = [c \in Consumers |-> NoRun]
    /\ claimed_ever = {}
    /\ IngestIdle

NextRace == \E c \in Consumers : Claim(c)

\* Consumers racing claim_job on one job file.
SpecRace == InitRace /\ [][NextRace]_vars

\* incoming holds the jobs of some ingest calls and the other state
\* directories are empty.
InitSolo ==
    /\ now = 0
    /\ cfg \in Configs
    /\ \E S \in JobSets({0}, Urls) :
        /\ fs = [EmptyFs EXCEPT !["incoming"] = DirOf(S)]
        /\ pids = {j.pid : j \in S}
    /\ Fresh
    /\ IngestIdle

\* One Run Loop invocation and nothing else (processing is empty, so its
\* reaper has no job to visit).
NextSolo ==
    \/ ReapStart(1)
    \/ List(1)
    \/ Claim(1)
    \/ Body(1)
    \/ Finally(1)

\* A single Run Loop invocation on a queue nobody else touches.
SpecSolo == InitSolo /\ [][NextSolo]_vars

\* The [queue] tables, those with a negative stale_processing_minutes among
\* them.
ReapConfigs ==
    [stale_minutes : (-1)..MaxStale, action : {"requeue", "error"}, max_per_run : 1..MaxCap]

\* Consumers that crashed or stalled have left jobs in processing; the other
\* state directories are empty.
InitReap ==
    /\ now = Latest
    /\ cfg \in ReapConfigs
    /\ \E S \in JobSets(Times, {"u1"}) :
        /\ fs = [EmptyFs EXCEPT !["processing"] = DirOf(S)]
        /\ pids = {j.pid : j \in S}
    /\ Fresh
    /\ IngestIdle

\* reap_stale_processing_jobs runs at the start of an invocation, and at the
\* start of a second invocation right after it has returned.
NextReap ==
    \/ ReapStart(1)
    \/ ReapOne(1)
    \/ (ReaperReturned(1) /\ ReapStart(2))
    \/ ReapOne(2)

\* The reaper, run twice in a row on the jobs left in processing.
SpecReap == InitReap /\ [][NextReap]_vars

\* Earlier calls have left jobs in one of the state directories and earlier
\* downloads have left lines in the archive.
InitIngest ==
    /\ now = 0
    /\ cfg \in {c \in Configs :
            c.stale_minutes = 0 /\ c.action = "requeue" /\ c.max_per_run = 1}
    /\ \E S \in JobSets({0}, Urls), d \in Dirs :
        /\ Cardinality(S) < MaxJobs
        /\ fs = [EmptyFs EXCEPT ![d] = DirOf(S)]
        /\ pids = {j.pid : j \in S}
    /\ Fresh
    /\ last = NoCall
    /\ archive \in SUBSET Lines
    /\ enq = {}

NextIngest ==
    \E pid \in Pids, payload \in Payloads, lookup \in Lookups :
        last = NoCall /\ IngestMain(pid, payload, lookup)

\* One ingest call, on every payload and every outcome of the
\* already-processed lookup.
SpecIngest == InitIngest /\ [][NextIngest]_vars

\* The state before one call; the archive is empty or holds one line.
InitIngestEnv ==
    /\ now = 0
    /\ cfg \in {c \in Configs : c.stale_minutes = 0 /\ c.action = "requeue" /\ c.max_per_run = 1}
    /\ \E S \in JobSets({0}, Urls), d \in Dirs :
        /\ Cardinality(S) < MaxJobs
        /\ fs = [EmptyFs EXCEPT ![d] = DirOf(S)]
        /\ pids = {j.pid : j \in S}
    /\ Fresh
    /\ last = NoCall
    /\ archive \in {{}, {SomeLine}}
    /\ enq = {}

NextIngestEnv ==
    \E pid \in Pids, payload \in Payloads, lookup \in Lookups,
       conf \in ConfOutcomes, io \in IoOutcomes :
        last = NoCall /\ IngestCall(pid, payload, lookup, conf, io)

\* One ingestion call, on every payload, in every environment: the
\* configuration may fail to load and the write may fail.
SpecIngestEnv == InitIngestEnv /\ [][NextIngestEnv]_vars

NextReapErr ==
    \/ ReapStart(1)
    \/ ReapOne(1)
    \/ ReapFail(1)
    \/ List(1)

\* The start of an invocation on jobs left in processing, when a move of the
\* reaper can fail.
SpecReapErr == InitReap /\ [][NextReapErr]_vars

\* incoming holds jobs that were enqueued at different times.
InitFifo ==
    /\ now = Latest
    /\ cfg \in Configs
    /\ \E S \in JobSets(Times, {"u1"}) :
        /\ fs = [EmptyFs EXCEPT !["incoming"] = DirOf(S)]
        /\ pids = {j.pid : j \in S}
    /\ Fresh
    /\ IngestIdle

\* A single Run Loop invocation on jobs of different ages.
SpecFifo == InitFifo /\ [][NextSolo]_vars

\* Run Loop invocations that overlap: each runs its reaper, lists incoming
\* and works on its jobs.
NextLive ==
    \E c \in Consumers :
        \/ ReapStart(c)
        \/ ReapOne(c)
        \/ List(c)
        \/ Claim(c)
        \/ Body(c)
        \/ Finally(c)

\* Overlapping invocations on jobs of different ages, at one instant: no time
\* passes between a claim and the reaper that meets it.
SpecLive == InitFifo /\ [][NextLive]_vars

NextEnqueue ==
    \/ \E pid \in Pids, url \in Urls : EnqOpen(pid, url)
    \/ \E e \in enq : EnqWrite(e) \/ EnqRename(e) \/ EnqCrash(e)
    \/ ReapStart(1)
    \/ List(1)
    \/ Claim(1)
    \/ Body(1)
    \/ Finally(1)

\* Enqueues in progress, enqueues that crash, and a reader.
SpecEnqueue == Init /\ [][NextEnqueue]_vars

\* The values a "category" or an "app" member can have.
Blanked(core, lead, trail) ==
    [kind |-> "string", text |-> [lead |-> lead, core |-> core, trail |-> trail]]

CategoryValues ==
    {JsonAbsent, JsonNull, JsonString(""), JsonString("music"), Blanked("music", 1, 0)}

AppValues ==
    {JsonAbsent, JsonNull, JsonString(""), JsonString("YouTube"), JsonString("youtube"),
     JsonString("Vimeo"), Blanked("YouTube", 1, 1)}

\* The texts a file of incoming can hold, whoever wrote it.
JobTexts ==
    {Bare("unparsable", JsonAbsent), Bare("not_object", JsonAbsent)}
        \cup [form : {"object"},
              url : {JsonAbsent, JsonString(""), JsonString("u1")},
              category : CategoryValues,
              app : AppValues]

OneJobConfig == [stale_minutes |-> 0, action |-> "requeue", max_per_run |-> 1]

\* incoming holds one job file, of any text.
InitPipeline ==
    /\ now = 0
    /\ cfg = OneJobConfig
    /\ \E text \in JobTexts :
        fs = [EmptyFs EXCEPT !["incoming"] =
                Put(<<>>, JobFilename(0, 1), [text |-> text, mtime |-> 0])]
    /\ pids = {1}
    /\ Fresh
    /\ IngestIdle

NextPipeline ==
    \/ ReapStart(1)
    \/ List(1)
    \/ Claim(1)
    \/ \E pipe \in Pipes : Pipeline(1, pipe)
    \/ Finally(1)

\* One Run Loop invocation on one job file, with collaborators that return
\* or raise.
SpecPipeline == InitPipeline /\ [][NextPipeline]_vars

\* The payloads ingestion admits, with their "category" and "app" members.
AdmittedPayloads ==
    [form : {"object"},
     url : {JsonString("u1"), Blanked("u1", 1, 1)},
     category : CategoryValues,
     app : AppValues]

InitRoundTrip ==
    /\ now = 0
    /\ cfg = OneJobConfig
    /\ fs = EmptyFs
    /\ pids = {}
    /\ Fresh
    /\ IngestIdle

NextRoundTrip ==
    \/ \E pid \in Pids, payload \in AdmittedPayloads :
        last = NoCall /\ IngestMain(pid, payload, LookupNonzero)
    \/ ReapStart(1)
    \/ List(1)
    \/ Claim(1)
    \/ Body(1)
    \/ Finally(1)

\* One ingestion call, then one Run Loop invocation that reads the job back.
SpecRoundTrip == InitRoundTrip /\ [][NextRoundTrip]_vars

----
\* Where a name is.
DirsOf(f, n) == {d \in Dirs : Exists(f, d, n)}

AllNames(f) == UNION {DOMAIN f[d] : d \in Dirs}

InBody(c) == pc[c] \in {"body", "finally"}

Terminated(c) == pc[c] \in {"done", "raised"}

\* C1: in every reachable state a job filename exists in at most one of the
\* directories incoming, processing, done, error.
C1_OneDirPerName == \A n \in AllNames(fs) : Cardinality(DirsOf(fs, n)) <= 1

\* C2: at no instant are two Run Loop instances both between a successful
\* claim_job and the matching finish_job for the same job filename.
C2_AtMostOneActiveClaim ==
    \A c1, c2 \in Consumers :
        (c1 # c2 /\ InBody(c1) /\ InBody(c2) /\ claimed[c1] # None)
            => claimed[c1] # claimed[c2]

\* Directory d holds job j = <<name, file>>.
Holds(f, d, j) == Exists(f, d, j[1]) /\ f[d][j[1]] = j[2]

\* A job has reached its final place: exactly one of done, error holds it,
\* and incoming and processing do not.
Settled(f, j) ==
    /\ Holds(f, "done", j) # Holds(f, "error", j)
    /\ ~Holds(f, "incoming", j)
    /\ ~Holds(f, "processing", j)

\* C4: every job that was successfully claimed ends in exactly one of done,
\* error and in neither incoming nor processing: once every Run Loop
\* invocation has ended (nothing moves a job afterwards), each claimed job
\* is settled.
C4_ClaimedJobsSettle ==
    (\A c \in Consumers : Terminated(c)) => \A j \in claimed_ever : Settled(fs, j)

\* C5: finish_job is called exactly once for each job the loop claimed, on
\* every exit path of the per-job body, and not at all for a failed claim:
\* no call is made before the finally clause, and when the iteration is left
\* the number of calls is 1 if the claim succeeded and 0 if it failed.
C5_FinishOncePerClaim ==
    [][\A c \in Consumers :
        /\ InBody(c)' => finish_calls'[c] = 0
        /\ (pc[c] = "finally" /\ pc'[c] # "finally")
            => finish_calls'[c] = (IF claimed[c] # None THEN 1 ELSE 0)]_vars

\* C5 witness: an iteration whose body raised has been left with its one
\* call of finish_job made and the job in error.
C5_Witness ==
    \E c \in Consumers :
        /\ pc[c] \in {"loop", "done"}
        /\ finish_calls[c] = 1
        /\ DOMAIN fs["error"] # {}

\* C6: no failure for one job after its claim aborts the batch: the Run Loop
\* never ends with an exception raised out of the per-job body.
C6_NoBatchAbort == \A c \in Consumers : pc[c] # "raised"

\* C3: when consumers race claim_job on one job file of incoming, exactly one
\* call succeeds, the file ends in processing, and every other call fails
\* with FileNotFoundError (no claimed path, the except clause taken).
C3_ExactlyOneClaimWins ==
    LET called == {c \in Consumers : pc[c] # "loop"}
        won == {c \in called : pc[c] = "body" /\ claimed[c] # None}
        lost == {c \in called : pc[c] = "finally" /\ claimed[c] = None}
    IN  called # {} =>
            /\ Cardinality(won) = 1
            /\ lost = called \ won
            /\ DOMAIN fs["incoming"] = {}
            /\ \A c \in won : DOMAIN fs["processing"] = {claimed[c]}

\* C3 witness: every racer has called claim_job and one of them has lost.
C3_Witness ==
    /\ \A c \in Consumers : pc[c] # "loop"
    /\ \E c \in Consumers : pc[c] = "finally" /\ claimed[c] = None

\* C7: a single invocation on n ready jobs with max_per_run = c leaves
\* exactly min(n, c) jobs in done or error and n - min(n, c) in incoming.
\* (n is the number of ingest calls that filled incoming.)
C7_CapSplitsQueue ==
    pc[1] = "done" =>
        LET n == Cardinality(pids)
            k == Min(n, cfg.max_per_run)
        IN  /\ Cardinality(DOMAIN fs["done"]) + Cardinality(DOMAIN fs["error"]) = k
            /\ DOMAIN fs["done"] \cap DOMAIN fs["error"] = {}
            /\ Cardinality(DOMAIN fs["incoming"]) = n - k
            /\ DOMAIN fs["processing"] = {}

\* C7 witness: the invocation has ended on the cap with a job left over.
C7_Witness ==
    /\ pc[1] = "done"
    /\ Cardinality(pids) > cfg.max_per_run
    /\ DOMAIN fs["incoming"] # {}

\* One file goes from src to dst under its name and nothing else changes.
MovedFile(f, g, src, dst, n) ==
    /\ Exists(f, src, n)
    /\ g = [f EXCEPT ![src] = Remove(f[src], n), ![dst] = Put(f[dst], n, f[src][n])]

\* One file appears in incoming and nothing else changes.
CreatedFile(f, g, n) ==
    /\ Exists(g, "incoming", n)
    /\ g = [f EXCEPT !["incoming"] = Put(f["incoming"], n, g["incoming"][n])]

\* C8: every move of a job file is incoming -> processing, processing ->
\* done or error, or (the reaper with action = requeue) processing ->
\* incoming; nothing leaves done or error and nothing goes from incoming
\* straight to done or error.  The only other change of the state directories
\* is a new job in incoming.
C8_LegalMoves ==
    [][fs' # fs =>
        \E n \in AllNames(fs) \cup AllNames(fs') :
            \/ CreatedFile(fs, fs', n)
            \/ MovedFile(fs, fs', "incoming", "processing", n)
            \/ MovedFile(fs, fs', "processing", "done", n)
            \/ MovedFile(fs, fs', "processing", "error", n)
            \/ /\ cfg.action = "requeue" /\ cfg.stale_minutes > 0
               /\ MovedFile(fs, fs', "processing", "incoming", n)]_vars

\* C8 witness: a reaper has moved a stale job and another job is in done.
C8_Witness ==
    /\ \E c \in Consumers : moved[c] > 0
    /\ DOMAIN fs["done"] # {}

\* A job of processing whose last modification is older than the threshold.
StuckPast(f, n, t, stale_minutes) ==
    f["processing"][n].mtime + stale_minutes * MsPerMin < t

\* C9, as claimed: when the reaper of the next invocation has returned, no
\* job stuck past the staleness threshold is left in processing.
C9_StuckJobsLeaveProcessing ==
    ReaperReturned(1) =>
        \A n \in DOMAIN fs["processing"] : ~StuckPast(fs, n, now, cfg.stale_minutes)

\* C9, amended: with stale_processing_minutes > 0, when the reaper of the
\* next invocation has returned, no job stuck past the staleness threshold is
\* left in processing.  (A job's mtime is never later than its claim, so a
\* job stuck since its claim for longer than the threshold is among these.)
C9_StuckJobsReapedWhenEnabled ==
    (cfg.stale_minutes > 0 /\ ReaperReturned(1)) =>
        \A n \in DOMAIN fs["processing"] : ~StuckPast(fs, n, now, cfg.stale_minutes)

\* C9 witness: the reaper has returned after moving a stale job while a job
\* that is not stale stays in processing.
C9_Witness ==
    /\ cfg.stale_minutes > 0
    /\ ReaperReturned(1)
    /\ moved[1] > 0
    /\ DOMAIN fs["processing"] # {}

\* C10: the reaper moves a stale job exactly once (the jobs in the target
\* directory are the stale ones and each was counted once, by the first run),
\* and a second run right after the first moves nothing and returns 0.
C10_ReaperIdempotent ==
    LET target == fs[ReapDir(cfg.action)] IN
        /\ moved[1] = Cardinality(DOMAIN target)
        /\ moved[2] = 0
        /\ \A n \in DOMAIN target :
            target[n].mtime + cfg.stale_minutes * MsPerMin < now
        /\ Cardinality(AllFiles(fs)) = Cardinality(pids)

\* C10 witness: the second run has returned after a first run that moved a
\* job.
C10_Witness ==
    /\ pc[2] # "start"
    /\ ReaperReturned(2)
    /\ moved[1] > 0

\* A step that is an ingest call.
IsCall == pids' # pids

\* The locator a payload carries, if it carries one.
HasLocator(payload) ==
    /\ payload.form = "object"
    /\ payload.url.kind = "string"
    /\ payload.url.text.core # ""

LocatorOf(payload) == payload.url.text.core

\* A job of incoming or processing stores the locator.
LocatorQueued(f, url) ==
    \/ \E n \in DOMAIN f["incoming"] : f["incoming"][n].text.url = JsonString(url)
    \/ \E n \in DOMAIN f["processing"] : f["processing"][n].text.url = JsonString(url)

\* The call has printed the status line s last.
Status(call, s) == call.stdout # <<>> /\ call.stdout[Len(call.stdout)] = s

\* C15: an ingestion of a locator that a job of incoming or processing
\* stores returns ALREADY_QUEUED and creates no file.
C15_QueuedLocatorIsReported ==
    [][(/\ IsCall
        /\ HasLocator(last'.stdin)
        /\ LocatorQueued(fs, LocatorOf(last'.stdin)))
            => (Status(last', "ALREADY_QUEUED") /\ last'.code = 0 /\ fs' = fs)]_vars

\* The payload is an object without the url member, or with an url that is
\* the empty string or blanks only.
LocatorMissing(payload) ==
    /\ payload.form = "object"
    /\ \/ payload.url.kind = "absent"
       \/ payload.url.kind = "string" /\ payload.url.text.core = ""

\* C16: an ingestion of a payload without the url member, or with an empty
\* one, returns InvalidPayload (exit code 2) and no state directory changes.
C16_MissingLocatorIsInvalid ==
    [][(IsCall /\ LocatorMissing(last'.stdin))
            => (/\ last'.stdout = <<"ERROR payload missing 'url'">>
                /\ last'.code = 2
                /\ fs' = fs)]_vars

\* C16 witness: a call has rejected an object whose url is blanks only.
C16_Witness ==
    /\ LocatorMissing(last.stdin)
    /\ last.stdin.url.kind = "string"
    /\ last.stdin.url.text.lead > 0
    /\ last.code = 2

\* The locator is present but is no well-formed absolute network address
\* (the addresses of the model are those of Urls).
LocatorMalformed(payload) ==
    /\ payload.form = "object"
    /\ \/ payload.url.kind = "null"
       \/ HasLocator(payload) /\ LocatorOf(payload) \notin Urls

\* C17: an ingestion of a payload whose locator is present but is no
\* well-formed absolute network address returns InvalidPayload and enqueues
\* nothing.
C17_MalformedLocatorIsInvalid ==
    [][(IsCall /\ LocatorMalformed(last'.stdin)) => (last'.code = 2 /\ fs' = fs)]_vars

\* The line of a pair with the extractor in lower case and the id as it is.
ComposedLine(l) ==
    [extractor |-> [letters |-> l.extractor.letters, caps |-> FALSE], id |-> l.id]

\* C18: for a locator that is not queued and a resolver that prints a pair,
\* the ingestion returns ALREADY_DOWNLOADED and writes no job if and only if
\* the archive has the line "<extractor in lower case> <id>"; otherwise it
\* enqueues the job.
C18_ArchiveGate ==
    [][(/\ IsCall
        /\ HasLocator(last'.stdin)
        /\ ~LocatorQueued(fs, LocatorOf(last'.stdin))
        /\ last'.lookup.result = "pair")
            => IF ComposedLine(last'.lookup.line) \in archive
               THEN Status(last', "ALREADY_DOWNLOADED") /\ last'.code = 0 /\ fs' = fs
               ELSE /\ Status(last', "QUEUED")
                    /\ \E n \in DOMAIN fs'["incoming"] : CreatedFile(fs, fs', n)]_vars

\* C18 witness: a call whose resolver printed the extractor with capitals
\* and an id with capitals has found its line in the archive.
C18_Witness ==
    /\ Status(last, "ALREADY_DOWNLOADED")
    /\ last.lookup.line.extractor.caps
    /\ last.lookup.line.id.caps

\* C19: when the already-processed lookup fails, an ingestion of a locator
\* that is not queued enqueues the job and returns QUEUED.
C19_LookupFailureDoesNotBlock ==
    [][(/\ IsCall
        /\ HasLocator(last'.stdin)
        /\ ~LocatorQueued(fs, LocatorOf(last'.stdin))
        /\ last'.lookup.result \in Failures)
            => /\ Status(last', "QUEUED")
               /\ last'.code = 0
               /\ \E n \in DOMAIN fs'["incoming"] : CreatedFile(fs, fs', n)]_vars

\* C11: with stale_minutes <= 0 reap_stale_processing_jobs returns 0 and
\* moves no file, whatever the ages of the jobs in processing and whatever
\* the action: every run has counted 0, every job is still in processing and
\* the other state directories are still empty.
C11_DisabledReaperMovesNothing ==
    cfg.stale_minutes <= 0 =>
        /\ \A c \in Consumers : moved[c] = 0 /\ pc[c] # "reap"
        /\ Cardinality(DOMAIN fs["processing"]) = Cardinality(pids)
        /\ \A d \in Dirs \ {"processing"} : DOMAIN fs[d] = {}

\* C11 witness: the reaper has returned with stale_minutes = 0 and action
\* error while processing holds a job that is older than a minute.
C11_Witness ==
    /\ cfg.stale_minutes = 0
    /\ cfg.action = "error"
    /\ ReaperReturned(1)
    /\ \E n \in DOMAIN fs["processing"] : fs["processing"][n].mtime + MsPerMin < now

\* C12: when the reaper moves a stale job whose name a file of the target
\* directory already has, it does not overwrite: after the move the file
\* that was there is still there and the reaped job is there too, under
\* another name.
C12_ReaperKeepsBothFiles ==
    [][\A c \in Consumers :
        moved'[c] = moved[c] + 1 =>
            LET t == ReapDir(cfg.action) IN
            \A n \in DOMAIN fs["processing"] \ DOMAIN fs'["processing"] :
                Exists(fs, t, n) =>
                    /\ Exists(fs', t, n) /\ fs'[t][n] = fs[t][n]
                    /\ \E m \in DOMAIN fs'[t] \ DOMAIN fs[t] :
                        fs'[t][m] = fs["processing"][n]]_vars

\* C13: an error while moving one stale job does not end the reap pass: the
\* invocation is never left by an exception of the reaper.
C13_ReapPassSurvivesMoveErrors == pc[1] # "reap_raised"

\* C14: the Run Loop claims ready jobs oldest first: when it claims a job,
\* no job it has claimed before in this invocation is newer.
C14_OldestFirst ==
    [][(pc[1] = "loop" /\ pc'[1] = "body") =>
        \A j \in claimed_ever :
            j[2].mtime <= fs["incoming"][Head(jobs[1])].mtime]_vars

\* C20: every file of incoming that the job pattern matches holds a complete
\* payload, at every instant.
C20_NoPartialJobVisible ==
    \A n \in DOMAIN fs["incoming"] :
        MatchesJobGlob(n) => fs["incoming"][n].text # PartialText

\* C20 witness: an enqueue has crashed in the middle of its write and left
\* its file behind, another is in the middle of its write, and the reader
\* has listed incoming.
C20_Witness ==
    /\ \E e \in enq : e.stage = "open"
    /\ \E n \in DOMAIN fs["incoming"] :
        /\ fs["incoming"][n].text = PartialText
        /\ \A e \in enq : n # TmpName(e.name, e.pid)
    /\ pc[1] \in {"loop", "done"}

\* The job files of a state directory: the files the job pattern matches.
JobFiles(f, d) == {<<n, f[d][n]>> : n \in Glob(f, d)}

\* C21: an ingestion that ends in a failure (exit code 2 or 3, an I/O error
\* while writing included) leaves the job files of incoming, processing,
\* done and error as they were.
C21_FailureLeavesQueue ==
    [][(IsCall /\ last'.code # 0) =>
        \A d \in Dirs : JobFiles(fs', d) = JobFiles(fs, d)]_vars

\* C21 witness: a call has ended with an internal error after its write
\* failed; its temporary file is in incoming.
C21_Witness ==
    /\ last.code = 3
    /\ \E n \in DOMAIN fs["incoming"] :
        ~MatchesJobGlob(n) /\ fs["incoming"][n].text = PartialText

\* C22: an ingestion call that enqueues gives its job a name that no file
\* of the state directories has: the file it puts in incoming replaces
\* nothing, and no other directory holds a file of that name.
C22_FreshFilename ==
    [][IsCall =>
        \A n \in DOMAIN fs'["incoming"] :
            (~Exists(fs, "incoming", n) \/ fs'["incoming"][n] # fs["incoming"][n])
                => \A d \in Dirs : ~Exists(fs, d, n)]_vars

\* The status lines of the interface.
SuccessLines == {"ALREADY_DOWNLOADED", "ALREADY_QUEUED", "QUEUED"}

PayloadErrorLines ==
    {"ERROR empty stdin", "ERROR json", "ERROR payload must be a JSON object",
     "ERROR payload missing 'url'", "ERROR config"}

InternalErrorLines == {"ERROR internal"}

\* ingest.main has rejected the payload, or could not parse it.
PayloadRejected(payload) == payload.form # "object" \/ LocatorMissing(payload)

\* C23: every call ends with one of the results; the exit code is 0 exactly
\* for ALREADY_DOWNLOADED, ALREADY_QUEUED and QUEUED, 2 exactly for an
\* invalid or unparsable payload, and 3 exactly for an internal error.
C23_ResultAndExitCode ==
    [][IsCall =>
        LET call == last'
            line == call.stdout[Len(call.stdout)]
        IN /\ call.stdout # <<>>
           /\ line \in SuccessLines \cup PayloadErrorLines \cup InternalErrorLines
           /\ call.code \in {0, 2, 3}
           /\ call.code = 0 <=> line \in SuccessLines
           /\ call.code = 2 <=> PayloadRejected(call.stdin)
           /\ call.code = 3 <=> (line \notin SuccessLines /\ ~PayloadRejected(call.stdin))]_vars

\* C24: every call prints exactly one line on standard output.
C24_OneLine == [][IsCall => Len(last'.stdout) = 1]_vars

\* The file a consumer has claimed and is working on.
ClaimedFile(c) == fs["processing"][claimed[c]]

\* parse_job_file has returned in this iteration.
Parsed(c) ==
    /\ pc[c] = "finally"
    /\ claimed[c] # None
    /\ Exists(fs, "processing", claimed[c])
    /\ run[c].parsed

\* A member the file has is the string str.
SameValue(v, str) == v.kind # "absent" => v = JsonString(str)

\* C25: the Job that parse_job_file yields for a file ingestion wrote has
\* the url, the category and the app the file holds.
C25_RoundTrip ==
    \A c \in Consumers :
        Parsed(c) =>
            /\ SameValue(ClaimedFile(c).text.url, run[c].job.url)
            /\ SameValue(ClaimedFile(c).text.category, run[c].job.category)
            /\ SameValue(ClaimedFile(c).text.app, run[c].job.app)

\* The finally clause of an iteration runs.
Finishes(c) == pc[c] = "finally" /\ pc'[c] # "finally"

\* The job of the iteration is in done and not in error.
Done(f, n) == Exists(f, "done", n) /\ ~Exists(f, "error", n)

\* C26: when the move to the configured destination raises and the move to
\* the fallback root returns, the job is finished into done, dest_dir is the
\* fallback path and the notification carries the fallback warning.
C26_FallbackIsSuccess ==
    [][\A c \in Consumers :
        (/\ Finishes(c)
         /\ "move" \in run[c].called
         /\ ~run[c].pipe.move
         /\ run[c].pipe.fallback)
            => (/\ Done(fs', claimed[c])
                /\ run[c].dest.root = "fallback"
                /\ run[c].warned)]_vars

\* C26 witness: an iteration whose first move raised has ended and its job
\* is in done.
C26_Witness ==
    /\ pc[1] = "done"
    /\ "fallback" \in run[1].called
    /\ ~run[1].pipe.move
    /\ run[1].warned
    /\ DOMAIN fs["done"] # {}

\* C27: a job whose iteration has reached the notification is finished into
\* done, whatever discord_post does.
C27_NotifierNeverFailsJob ==
    [][\A c \in Consumers :
        (Finishes(c) /\ "notify" \in run[c].called) => Done(fs', claimed[c])]_vars

\* C27 witness: discord_post has raised and the job is in done.
C27_Witness ==
    /\ pc[1] = "done"
    /\ "notify" \in run[1].called
    /\ run[1].pipe.notify = "raises"
    /\ DOMAIN fs["done"] # {}

\* C28: no step of a consumer (claim, finish, reap) changes the text of a
\* job file: every file a directory holds after the step has the text that a
\* file of the same name had before it.
C28_JobTextImmutable ==
    [][pids' = pids =>
        \A d \in Dirs : \A n \in DOMAIN fs'[d] :
            \E d0 \in Dirs : Exists(fs, d0, n) /\ fs[d0][n].text = fs'[d][n].text]_vars

\* C28 witness: a claimed job rests in done and another in error, each with
\* the file it had in incoming.
C28_Witness ==
    /\ \E j \in claimed_ever : Holds(fs, "done", j)
    /\ \E j \in claimed_ever : Holds(fs, "error", j)

\* The file is no valid structured data, or has no url member.
MalformedJob(file) == ~Readable(file) \/ file.text.url.kind = "absent"

\* C29: an iteration on a job file that is no valid structured data, or that
\* has no url, fails in parse_job_file: no Job is returned, no collaborator
\* is called and the job is finished into error.
C29_MalformedJobFailsAtParse ==
    \A c \in Consumers :
        (/\ pc[c] = "finally"
         /\ claimed[c] # None
         /\ Exists(fs, "processing", claimed[c])
         /\ MalformedJob(ClaimedFile(c)))
            => (~run[c].parsed /\ run[c].called = {} /\ ~ok[c])

\* C30: the Job of a file without a category has category "unsorted", the
\* Job of a file without an app has app "YouTube", and the iteration does
\* not fail on the app.
C30_ParseDefaults ==
    \A c \in Consumers :
        Parsed(c) =>
            /\ ClaimedFile(c).text.category.kind = "absent"
                => run[c].job.category = "unsorted"
            /\ ClaimedFile(c).text.app.kind = "absent"
                => (run[c].job.app = "YouTube" /\ Supported(run[c].job))

\* The invocation of consumer c returns in this step.
Returns(c) == pc[c] # "done" /\ pc'[c] = "done"

\* C31: when a Run Loop invocation returns, incoming holds no job or the
\* invocation has processed max_per_run jobs.
C31_StopsOnEmptyOrCap ==
    [][\A c \in Consumers :
        Returns(c) =>
            \/ Glob(fs', "incoming") = {}
            \/ processed'[c] >= cfg.max_per_run]_vars

\* The jobs the invocation has claimed and that are still in processing.
Unfinished == {j \in claimed_ever : Holds(fs, "processing", j)}

\* C32: a Run Loop instance has at most one job that it has claimed and not
\* yet finished.
C32_OneJobAtATime == Cardinality(Unfinished) <= 1

\* C32 witness: the instance has finished one job and is working on the
\* next.
C32_Witness ==
    /\ pc[1] = "body"
    /\ processed[1] = 1
    /\ Cardinality(claimed_ever) = 2
    /\ Cardinality(Unfinished) = 1

\* C37: no step deletes a job file or overwrites one job file with another:
\* the number of files of the state directories never goes down.
C37_NoJobLost ==
    [][Cardinality(AllFiles(fs')) >= Cardinality(AllFiles(fs))]_vars

\* C38: an iteration whose claim_job failed with NotFound is not counted as
\* processed.
C38_LostClaimNotCounted ==
    [][\A c \in Consumers :
        (Finishes(c) /\ claimed[c] = None) => processed'[c] = processed[c]]_vars

\* C39: a call returns exit code 2 only when its payload is empty,
\* unparsable, no object or without url.
C39_InvalidInputOnlyForPayload ==
    [][(IsCall /\ last'.code = 2) => PayloadRejected(last'.stdin)]_vars

\* C33: an ingestion of a locator that a job of incoming or processing
\* stores writes no job and does not run the media-resolution collaborator.
C33_QueuedShortCircuits ==
    [][(/\ IsCall
        /\ HasLocator(last'.stdin)
        /\ LocatorQueued(fs, LocatorOf(last'.stdin)))
            => (fs' = fs /\ ~last'.ran)]_vars

\* C33 witness: a call has answered ALREADY_QUEUED for a locator that the
\* resolver knows, without running it.
C33_Witness ==
    /\ Status(last, "ALREADY_QUEUED")
    /\ last.lookup.result = "pair"
    /\ ~last.ran

\* Only done or error hold a job with the locator.
LocatorOnlySettled(f, url) ==
    /\ ~LocatorQueued(f, url)
    /\ \E d \in {"done", "error"} : \E n \in DOMAIN f[d] : f[d][n].text.url = JsonString(url)

\* The archive has the line of the locator.
InArchive(lookup) ==
    lookup.result = "pair" /\ ComposedLine(lookup.line) \in archive

\* C34: an ingestion of a locator whose only jobs are in done or error is
\* not answered ALREADY_QUEUED and, when the locator is not in the archive,
\* enqueues a new job.
C34_SettledJobsDoNotBlock ==
    [][(/\ IsCall
        /\ HasLocator(last'.stdin)
        /\ LocatorOnlySettled(fs, LocatorOf(last'.stdin)))
            => (/\ ~Status(last', "ALREADY_QUEUED")
                /\ ~InArchive(last'.lookup) =>
                    (/\ Status(last', "QUEUED")
                     /\ Cardinality(DOMAIN fs'["incoming"])
                            = Cardinality(DOMAIN fs["incoming"]) + 1))]_vars

\* The job files of incoming and processing that store the locator.
QueuedWith(f, url) ==
    {<<d, n>> \in {"incoming", "processing"} \X AllNames(f) :
        n \in Glob(f, d) /\ f[d][n].text.url = JsonString(url)}

\* C36: at every instant at most one job with a given locator is in incoming
\* or processing, whatever ingestions and claims run at the same time.
C36_OneJobPerLocator ==
    \A url \in Urls : Cardinality(QueuedWith(fs, url)) <= 1

\* Consumer d works on a job that it has claimed and not yet finished.
Working(d) == InBody(d) /\ claimed[d] # None

\* The reaper of c takes the job of d out of processing.
ReapsJobOf(c, d) ==
    /\ moved'[c] = moved[c] + 1
    /\ Exists(fs, "processing", claimed[d])
    /\ ~Exists(fs', "processing", claimed[d])

\* C35: the reaper never moves a job that a live consumer claimed less than
\* the staleness threshold ago, however long the job waited in incoming
\* (here no time passes after a claim, so every claim is younger than any
\* threshold that enables the reaper).
C35_ReaperSparesFreshClaims ==
    [][\A c, d \in Consumers : (c # d /\ Working(d)) => ~ReapsJobOf(c, d)]_vars

\* The root that dest_dir is not under.
OtherRoot(root) == IF root = "configured" THEN "fallback" ELSE "configured"

\* C40: when an iteration succeeds, every file of the staging directory is
\* under the one destination that "Saved To" reports, and none is elsewhere.
C40_OneDestination ==
    \A c \in Consumers :
        (pc[c] = "finally" /\ run[c].ok) =>
            /\ run[c].placed[run[c].dest.root] = StagedFiles
            /\ run[c].placed[OtherRoot(run[c].dest.root)] = {}

====
